---- MODULE Spec2Model ----
(***************************************************************************)
(* FrancoDB python driver (src/libaries/francodb.py): the Session          *)
(* (class FrancoDB), its Cursors, the length-framed request/response       *)
(* exchange of Cursor.execute and the response decoders, as a state        *)
(* machine over a byte-level transport.                                    *)
(*                                                                         *)
(* Strings are sequences of Unicode code points, byte strings sequences of *)
(* 0..255.  An exception is a record [kind, msg, val]; a returned value    *)
(* has kind "ok".                                                          *)
(***************************************************************************)
EXTENDS Integers, Sequences, FiniteSets, TLC

\* ------------------------------------------------------------------------
\* Bounds of the model
\* ------------------------------------------------------------------------
MaxPending == 1
MaxInbox == 9
MaxN == 3
MaxStream == 3
MaxQuery == 2
MaxText == 3
MaxCols == 2
MaxRows == 2

Threads == {1, 2}

\* The cursors of the callers, one each, then the one each connect() makes
\* for itself
UserCursors == Threads

ConnCursor(t) == Cardinality(Threads) + t

Cursors == UserCursors \cup { ConnCursor(t) : t \in Threads }

\* ------------------------------------------------------------------------
\* Sequences, strings and bytes
\* ------------------------------------------------------------------------
Take(s, k) == SubSeq(s, 1, IF k < Len(s) THEN k ELSE Len(s))

Drop(s, k) == SubSeq(s, (IF k < Len(s) THEN k ELSE Len(s)) + 1, Len(s))

Min(a, b) == IF a < b THEN a ELSE b

\* data[a:b] of python, 0-based and clipped to the buffer
Slice(s, a, b) == SubSeq(s, Min(a, Len(s)) + 1, Min(b, Len(s)))

\* "sub in s"
Contains(s, sub) ==
    \E i \in 0..(Len(s) - Len(sub)) : SubSeq(s, i + 1, i + Len(sub)) = sub

\* s.startswith(p)
StartsWith(s, p) == Len(s) >= Len(p) /\ SubSeq(s, 1, Len(p)) = p

\* str.isspace() of one character
IsSpace(c) ==
    \/ c \in 9..13
    \/ c \in 28..32
    \/ c \in {133, 160, 5760, 8232, 8233, 8239, 8287, 12288}
    \/ c \in 8192..8202

RECURSIVE LStrip(_)
LStrip(s) == IF s # <<>> /\ IsSpace(Head(s)) THEN LStrip(Tail(s)) ELSE s

RECURSIVE RStrip(_)
RStrip(s) ==
    IF s # <<>> /\ IsSpace(s[Len(s)]) THEN RStrip(SubSeq(s, 1, Len(s) - 1)) ELSE s

\* str.strip()
Strip(s) == RStrip(LStrip(s))

\* Literals of the source, as code points
S_OK == <<79, 75>>
S_SUCCESS == <<83, 85, 67, 67, 69, 83, 83>>
S_ERROR == <<69, 82, 82, 79, 82>>
S_BRACE == <<123>>
S_LOGIN == <<76, 79, 71, 73, 78, 32>>
S_USEDB == <<50, 69, 83, 84, 65, 53, 68, 69, 77, 32>>
S_SPACE == <<32>>
S_SEMI == <<59>>

\* Protocol constants
CMD_TEXT == 81
CMD_JSON == 74
CMD_BINARY == 66

\* struct '!I': 4 bytes, big-endian
Pack32(n) ==
    << (n \div 16777216) % 256, (n \div 65536) % 256, (n \div 256) % 256, n % 256 >>

\* struct.unpack('!I', b)[0].  A value of 2^30 or more stands for itself as
\* 2^30: it exceeds every buffer and stream of the model in the same way
Unpack32(b) ==
    IF b[1] >= 64 THEN 1073741824
    ELSE ((b[1] * 256 + b[2]) * 256 + b[3]) * 256 + b[4]

\* HEADER_STRUCT = struct.Struct('!cI')
HeaderPack(tag, n) == <<tag>> \o Pack32(n)

\* One character to its UTF-8 bytes (Unicode scalar values)
Utf8Char(c) ==
    IF c < 128 THEN <<c>>
    ELSE IF c < 2048 THEN << 192 + (c \div 64), 128 + (c % 64) >>
    ELSE IF c < 65536 THEN
        << 224 + (c \div 4096), 128 + ((c \div 64) % 64), 128 + (c % 64) >>
    ELSE << 240 + (c \div 262144), 128 + ((c \div 4096) % 64),
            128 + ((c \div 64) % 64), 128 + (c % 64) >>

RECURSIVE Utf8Encode(_)
\* str.encode('utf-8')
Utf8Encode(s) == IF s = <<>> THEN <<>> ELSE Utf8Char(Head(s)) \o Utf8Encode(Tail(s))

IsCont(b) == b \in 128..191

\* Length of the well-formed UTF-8 sequence at the head of b, 0 if none
Utf8SeqLen(b) ==
    LET b1 == b[1] IN
    IF b1 < 128 THEN 1
    ELSE IF b1 \in 194..223 THEN
        IF Len(b) >= 2 /\ IsCont(b[2]) THEN 2 ELSE 0
    ELSE IF b1 \in 224..239 THEN
        IF /\ Len(b) >= 3
           /\ IsCont(b[2])
           /\ IsCont(b[3])
           /\ (b1 = 224 => b[2] >= 160)
           /\ (b1 = 237 => b[2] <= 159)
        THEN 3 ELSE 0
    ELSE IF b1 \in 240..244 THEN
        IF /\ Len(b) >= 4
           /\ IsCont(b[2])
           /\ IsCont(b[3])
           /\ IsCont(b[4])
           /\ (b1 = 240 => b[2] >= 144)
           /\ (b1 = 244 => b[2] <= 143)
        THEN 4 ELSE 0
    ELSE 0

Utf8CodePoint(b, k) ==
    IF k = 1 THEN b[1]
    ELSE IF k = 2 THEN (b[1] - 192) * 64 + (b[2] - 128)
    ELSE IF k = 3 THEN ((b[1] - 224) * 64 + (b[2] - 128)) * 64 + (b[3] - 128)
    ELSE (((b[1] - 240) * 64 + (b[2] - 128)) * 64 + (b[3] - 128)) * 64 + (b[4] - 128)

RECURSIVE Utf8Valid(_)
Utf8Valid(b) ==
    IF b = <<>> THEN TRUE
    ELSE LET k == Utf8SeqLen(b) IN IF k = 0 THEN FALSE ELSE Utf8Valid(Drop(b, k))

RECURSIVE Utf8Decode(_)
\* bytes.decode('utf-8') of a valid buffer (UnicodeDecodeError iff ~Utf8Valid)
Utf8Decode(b) ==
    IF b = <<>> THEN <<>>
    ELSE LET k == Utf8SeqLen(b) IN <<Utf8CodePoint(b, k)>> \o Utf8Decode(Drop(b, k))

\* ------------------------------------------------------------------------
\* Exceptions and results
\* ------------------------------------------------------------------------
\* A returned str
OkStr(v) == [kind |-> "ok", msg |-> "str", val |-> v]

\* A returned list of rows
OkRows(v) == [kind |-> "ok", msg |-> "rows", val |-> v]

\* A returned None
OkNone == [kind |-> "ok", msg |-> "None", val |-> <<>>]

Raise(k, m, v) == [kind |-> k, msg |-> m, val |-> v]

NoResult == [kind |-> "none", msg |-> "", val |-> <<>>]

\* The driver's own hierarchy: FrancoDBError and its three subclasses
DriverErrors == {"OperationalError", "AuthError", "QueryError"}

\* ------------------------------------------------------------------------
\* Cursor._parse_text_body
\* ------------------------------------------------------------------------
\* The heuristic without its startswith("{") test
ParseTextBody_NoBrace(data) ==
    IF ~Utf8Valid(data) THEN Raise("OperationalError", "Received non-text data", <<>>)
    ELSE IF Contains(Strip(Utf8Decode(data)), S_ERROR)
         THEN Raise("QueryError", "", Strip(Utf8Decode(data)))
         ELSE OkStr(Strip(Utf8Decode(data)))

ParseTextBody(data) ==
    IF ~Utf8Valid(data) THEN Raise("OperationalError", "Received non-text data", <<>>)
    ELSE LET response == Strip(Utf8Decode(data)) IN
         IF Contains(response, S_ERROR) /\ ~StartsWith(response, S_BRACE)
         THEN Raise("QueryError", "", response)
         ELSE OkStr(response)

\* ------------------------------------------------------------------------
\* Cursor._parse_binary_body
\* ------------------------------------------------------------------------
\* Characters python's str.isdigit() accepts: the decimal digits (ASCII and
\* the other Nd code points, here the Arabic-Indic ones) and the digits that
\* are not decimal (superscripts)
IsAsciiDigit(c) == c \in 48..57

IsDecimalChar(c) == IsAsciiDigit(c) \/ c \in 1632..1641

IsDigitChar(c) == IsDecimalChar(c) \/ c \in {178, 179, 185}

DecimalValue(c) == IF IsAsciiDigit(c) THEN c - 48 ELSE c - 1632

\* str.isdigit(): non-empty and every character a digit
IsDigitStr(s) == s # <<>> /\ \A i \in 1..Len(s) : IsDigitChar(s[i])

\* Digits with single underscores between them, as int() and float() read them
RECURSIVE DigitRun(_)
DigitRun(s) ==
    /\ s # <<>>
    /\ IsDecimalChar(s[1])
    /\ \/ Len(s) = 1
       \/ DigitRun(Tail(s))
       \/ Len(s) >= 3 /\ s[2] = 95 /\ DigitRun(Tail(Tail(s)))

RECURSIVE DigitsValue(_, _)
DigitsValue(s, acc) ==
    IF s = <<>> THEN acc
    ELSE IF s[1] = 95 THEN DigitsValue(Tail(s), acc)
    ELSE DigitsValue(Tail(s), acc * 10 + DecimalValue(s[1]))

IsSign(c) == c \in {43, 45}

Unsigned(s) == IF s # <<>> /\ IsSign(s[1]) THEN Tail(s) ELSE s

\* int(s) succeeds (ValueError otherwise)
IntParses(s) == DigitRun(Unsigned(Strip(s)))

IntValue(s) ==
    LET t == Strip(s)
        v == DigitsValue(Unsigned(t), 0)
    IN  IF t[1] = 45 THEN 0 - v ELSE v

Lower(c) == IF c \in 65..90 THEN c + 32 ELSE c

LowerStr(s) == [i \in 1..Len(s) |-> Lower(s[i])]

\* "inf", "infinity", "nan"
FloatWords == { <<105, 110, 102>>, <<105, 110, 102, 105, 110, 105, 116, 121>>, <<110, 97, 110>> }

\* [e|E][sign]digits
IsExponent(s) ==
    /\ Len(s) >= 2
    /\ s[1] \in {69, 101}
    /\ DigitRun(Unsigned(Tail(s)))

\* digits[.[digits]][exp] | .digits[exp]
IsFloatBody(s) ==
    \E i \in 0..Len(s), j \in 0..Len(s), k \in 0..1 :
        LET ip == SubSeq(s, 1, i)
            fp == SubSeq(s, i + k + 1, j)
            ex == SubSeq(s, j + 1, Len(s))
        IN  /\ i + k <= j
            /\ (k = 1 => s[i + 1] = 46)
            /\ (k = 0 => fp = <<>>)
            /\ (ip = <<>> \/ DigitRun(ip))
            /\ (fp = <<>> \/ DigitRun(fp))
            /\ (ip # <<>> \/ fp # <<>>)
            /\ (ex = <<>> \/ IsExponent(ex))

\* float(s) succeeds (ValueError otherwise)
FloatParses(s) ==
    LET t == Unsigned(Strip(s)) IN LowerStr(t) \in FloatWords \/ IsFloatBody(t)

IntCell(v) == [t |-> "int", v |-> v, s |-> <<>>]

FloatCell(s) == [t |-> "float", v |-> 0, s |-> s]

TextCell(s) == [t |-> "text", v |-> 0, s |-> s]

BadCell == [t |-> "ValueError", v |-> 0, s |-> <<>>]

\* "Auto-convert numbers" of the rows loop
Coerce(val_str) ==
    IF IsDigitStr(val_str) \/ (StartsWith(val_str, <<45>>) /\ IsDigitStr(Tail(val_str)))
    THEN IF IntParses(val_str) THEN IntCell(IntValue(val_str)) ELSE BadCell
    ELSE IF FloatParses(val_str) THEN FloatCell(val_str)
    ELSE TextCell(val_str)

\* A length-prefixed UTF-8 string at data[ptr:]: struct.unpack on the 4 bytes
\* sliced (struct.error when fewer), then a clipped slice, decoded
NoStr(e, ptr) == [err |-> e, s |-> <<>>, ptr |-> ptr]

\* data[ptr:ptr+n].decode('utf-8'), ptr += n
DecodeStr(raw, ptr, n) ==
    IF ~Utf8Valid(raw) THEN NoStr("UnicodeDecodeError", ptr)
    ELSE [err |-> "", s |-> Utf8Decode(raw), ptr |-> ptr + n]

\* struct.unpack('!I', ...)[0], ptr += 4
UnpackLen(data, lenb, ptr) ==
    IF Len(lenb) < 4 THEN NoStr("struct.error", ptr)
    ELSE DecodeStr(Slice(data, ptr + 4, ptr + 4 + Unpack32(lenb)), ptr + 4, Unpack32(lenb))

ReadStr(data, ptr) == UnpackLen(data, Slice(data, ptr, ptr + 4), ptr)

NoCols(e, ptr) == [err |-> e, cols |-> <<>>, ptr |-> ptr]

\* columns.append(col_name)
AppendCol(r, rest) == [err |-> rest.err, cols |-> <<r.s>> \o rest.cols, ptr |-> rest.ptr]

\* "B. Read Columns": k columns from ptr on, each a type byte and a name
RECURSIVE ReadCols(_, _, _)
NextCol(data, r, k) ==
    IF r.err # "" THEN NoCols(r.err, r.ptr)
    ELSE AppendCol(r, ReadCols(data, r.ptr, k - 1))

ReadCols(data, ptr, k) ==
    IF k = 0 THEN NoCols("", ptr)
    ELSE NextCol(data, ReadStr(data, ptr + 1), k)

NoCells(e, ptr) == [err |-> e, cells |-> <<>>, ptr |-> ptr]

\* row.append(val)
AppendCell(c, rest) == [err |-> rest.err, cells |-> <<c>> \o rest.cells, ptr |-> rest.ptr]

\* The inner loop of "C. Read Rows": k cells from ptr on
RECURSIVE ReadCells(_, _, _)
ConvertCell(data, c, ptr, k) ==
    IF c.t = "ValueError" THEN NoCells("ValueError", ptr)
    ELSE AppendCell(c, ReadCells(data, ptr, k - 1))

NextCell(data, r, k) ==
    IF r.err # "" THEN NoCells(r.err, r.ptr)
    ELSE ConvertCell(data, Coerce(r.s), r.ptr, k)

ReadCells(data, ptr, k) ==
    IF k = 0 THEN NoCells("", ptr)
    ELSE NextCell(data, ReadStr(data, ptr), k)

NoRows(e, ptr) == [err |-> e, rows |-> <<>>, ptr |-> ptr]

\* result_rows.append(row)
AppendRow(r, rest) == [err |-> rest.err, rows |-> <<r.cells>> \o rest.rows, ptr |-> rest.ptr]

\* The outer loop of "C. Read Rows": n rows of num_cols cells
RECURSIVE ReadRows(_, _, _, _)
NextRow(data, r, n, num_cols) ==
    IF r.err # "" THEN NoRows(r.err, r.ptr)
    ELSE AppendRow(r, ReadRows(data, r.ptr, n - 1, num_cols))

ReadRows(data, ptr, n, num_cols) ==
    IF n = 0 THEN NoRows("", ptr)
    ELSE NextRow(data, ReadCells(data, ptr, num_cols), n, num_cols)

ParseFailed(cause) == Raise("OperationalError", "Binary parse failed", cause)

\* Where the decoder stops: the exception inside the try (err), the branch
\* taken (ty) and what it read
Walk(e, ty, s, cols, rows, ptr) ==
    [err |-> e, ty |-> ty, s |-> s, cols |-> cols, rows |-> rows, ptr |-> ptr]

\* 0xFF and 0x01: one length-prefixed string
WalkStr(ty, r) == Walk(r.err, ty, r.s, <<>>, <<>>, r.ptr)

WalkRows(c, r) == Walk(r.err, "table", <<>>, c.cols, r.rows, r.ptr)

WalkCols(data, c, num_rows, num_cols) ==
    IF c.err # "" THEN Walk(c.err, "table", <<>>, <<>>, <<>>, c.ptr)
    ELSE WalkRows(c, ReadRows(data, c.ptr, num_rows, num_cols))

\* 0x02, "A. Read Counts"
WalkTable(data, cb, rb) ==
    IF Len(cb) < 4 \/ Len(rb) < 4 THEN Walk("struct.error", "table", <<>>, <<>>, <<>>, 1)
    ELSE WalkCols(data, ReadCols(data, 9, Unpack32(cb)), Unpack32(rb), Unpack32(cb))

BinaryWalk(data) ==
    IF data = <<>> THEN Walk("IndexError", "", <<>>, <<>>, <<>>, 0)
    ELSE IF data[1] = 255 THEN WalkStr("error", ReadStr(data, 1))
    ELSE IF data[1] = 1 THEN WalkStr("message", ReadStr(data, 1))
    ELSE IF data[1] = 2 THEN WalkTable(data, Slice(data, 1, 5), Slice(data, 5, 9))
    ELSE Walk("", "unknown", <<>>, <<>>, <<>>, 1)

S_SERVER_ERROR == <<83, 101, 114, 118, 101, 114, 32, 69, 114, 114, 111, 114, 58, 32>>

\* "except Exception" without its isinstance test: the QueryError of the
\* 0xFF branch is wrapped like any other exception
BinaryResult_Wrapped(w) ==
    IF w.err # "" THEN ParseFailed(w.err)
    ELSE IF w.ty = "error" THEN ParseFailed("QueryError")
    ELSE IF w.ty = "message" THEN OkStr(w.s)
    ELSE IF w.ty = "table" THEN OkRows(w.rows)
    ELSE OkNone

\* The 0x01 message treated like a text body: stripped
BinaryResult_Stripped(w) ==
    IF w.err # "" THEN ParseFailed(w.err)
    ELSE IF w.ty = "error" THEN Raise("QueryError", "", S_SERVER_ERROR \o w.s)
    ELSE IF w.ty = "message" THEN OkStr(Strip(w.s))
    ELSE IF w.ty = "table" THEN OkRows(w.rows)
    ELSE OkNone

\* What the walk becomes for the caller
BinaryResult(w) ==
    IF w.err # "" THEN ParseFailed(w.err)
    ELSE IF w.ty = "error" THEN Raise("QueryError", "", S_SERVER_ERROR \o w.s)
    ELSE IF w.ty = "message" THEN OkStr(w.s)
    ELSE IF w.ty = "table" THEN OkRows(w.rows)
    ELSE OkNone

ParseBinaryBody(data) == BinaryResult(BinaryWalk(data))

\* ------------------------------------------------------------------------
\* State
\* ------------------------------------------------------------------------
VARIABLES
    sock,          \* FrancoDB.sock: 0 is None, 1 the socket object it refers to
    connected,     \* FrancoDB._connected
    sockSt,        \* that socket: "none", "open", "closed" (sock.close() done)
    inbox,         \* that socket: bytes the server sent, not yet received
    eof,           \* that socket: the server has closed its end
    unanswered,    \* that socket: request frames the server has not answered
    pc,            \* per thread: where it is
    ctx,           \* per thread: who called execute ("user", "login", "usedb", "raw")
    cur,           \* per thread: the Cursor it is executing on
    frame,         \* per thread: header + payload_bytes
    phase,         \* per thread: which _recv_n of execute ("len", "body"), or "raw"
    need,          \* per thread: n of _recv_n
    data,          \* per thread: data of _recv_n
    args,          \* per thread: the arguments of connect
    ret,           \* per thread: the last call that ended and how
    curBorn,       \* per cursor: "no", or the session state when it was made
    lastRaw,       \* per cursor: Cursor.last_raw_bytes
    req,           \* per thread: fql and mode of the execute in progress
    writes,        \* history, per thread: the sendall calls of the execute in progress
    outstanding,   \* history: frames written whose execute has not ended
    deliveries,    \* history, per thread: recv calls of this _recv_n that gave data
    stream0        \* history: the stream a bare _recv_n started from

vars == << sock, connected, sockSt, inbox, eof, unanswered, pc, ctx, cur,
           frame, phase, need, data, args, ret, curBorn, lastRaw, req, writes,
           outstanding, deliveries, stream0 >>

netVars == << inbox, eof, unanswered >>

sockVars == << sock, sockSt >>

loopVars == << phase, need, data, deliveries >>

NoArgs == [username |-> <<>>, password |-> <<>>, database |-> <<>>]

NoReq == [fql |-> <<>>, mode |-> ""]

Ended(o, e) == [op |-> o, out |-> e]

\* FrancoDB.is_connected
IsConnected == connected /\ sock # 0

\* ------------------------------------------------------------------------
\* Exception handlers
\* ------------------------------------------------------------------------
\* "except socket.error as e" of Cursor.execute
ExecExcept(e) ==
    IF e.kind = "socket.error" THEN Raise("OperationalError", "Network error", <<>>)
    ELSE e

\* "except socket.error as e" of FrancoDB.connect: what it does to _connected
\* and what leaves connect
ConnectExcept(e) ==
    IF e.kind = "socket.error"
    THEN [flag |-> FALSE, out |-> Raise("OperationalError", "Connection error", <<>>)]
    ELSE [flag |-> connected, out |-> e]

\* The login check of connect on what execute returned
LoginCheck(res) ==
    IF ~Contains(res.val, S_OK) /\ ~Contains(res.val, S_SUCCESS)
    THEN Raise("AuthError", "Login failed", res.val)
    ELSE res

\* connect() ends with e; its cursor is garbage from here on
ConnectEnds(t, e, raw) ==
    LET h == ConnectExcept(e) IN
    /\ connected' = h.flag
    /\ ret' = [ret EXCEPT ![t] = Ended("connect", h.out)]
    /\ pc' = [pc EXCEPT ![t] = "idle"]
    /\ ctx' = [ctx EXCEPT ![t] = "none"]
    /\ args' = [args EXCEPT ![t] = NoArgs]
    /\ lastRaw' = [raw EXCEPT ![ConnCursor(t)] = <<>>]

\* execute, called in context cx, ends with e: back in the caller
Return(t, cx, e, raw) ==
    /\ req' = [req EXCEPT ![t] = NoReq]
    /\ writes' = [writes EXCEPT ![t] = <<>>]
    /\ IF cx = "user" \/ cx = "raw" THEN
           /\ ret' = [ret EXCEPT ![t] = Ended(IF cx = "raw" THEN "recv_n" ELSE "execute", e)]
           /\ pc' = [pc EXCEPT ![t] = "idle"]
           /\ ctx' = [ctx EXCEPT ![t] = "none"]
           /\ lastRaw' = raw
           /\ UNCHANGED << connected, args >>
       ELSE IF e.kind # "ok" THEN ConnectEnds(t, e, raw)
       ELSE IF cx = "login" /\ LoginCheck(e).kind # "ok"
       THEN ConnectEnds(t, LoginCheck(e), raw)
       ELSE IF cx = "login" /\ args[t].database # <<>> THEN
           /\ pc' = [pc EXCEPT ![t] = "conn_db"]
           /\ ctx' = [ctx EXCEPT ![t] = "none"]
           /\ lastRaw' = raw
           /\ UNCHANGED << connected, ret, args >>
       ELSE ConnectEnds(t, OkNone, raw)

\* ------------------------------------------------------------------------
\* Cursor.execute
\* ------------------------------------------------------------------------
MsgType(m) ==
    IF m = "json" THEN CMD_JSON ELSE IF m = "binary" THEN CMD_BINARY ELSE CMD_TEXT

\* The header carries len(fql), the characters, in place of the bytes
RequestFrame_CharCount(fql, m) ==
    HeaderPack(MsgType(m), Len(fql)) \o Utf8Encode(fql)

\* "2. Pack & Send Request": header + payload_bytes
RequestFrame(fql, m) ==
    LET payload_bytes == Utf8Encode(fql) IN
    HeaderPack(MsgType(m), Len(payload_bytes)) \o payload_bytes

\* The binary decoder for every mode that is not 'text' or 'json'
ParseBody_NotText(m, body_data) ==
    IF m \in {"text", "json"} THEN ParseTextBody(body_data) ELSE ParseBinaryBody(body_data)

\* "5. Parse Payload"
ParseBody(m, body_data) ==
    IF m = "binary" THEN ParseBinaryBody(body_data) ELSE ParseTextBody(body_data)

NotConnectedError == Raise("OperationalError", "Database is not connected", <<>>)

\* execute without its connected check: it goes on to the transport
ExecEnter_NoCheck(t, c, fql, m, cx) ==
    /\ cur' = [cur EXCEPT ![t] = c]
    /\ lastRaw' = [lastRaw EXCEPT ![c] = <<>>]
    /\ frame' = [frame EXCEPT ![t] = RequestFrame(fql, m)]
    /\ req' = [req EXCEPT ![t] = [fql |-> fql, mode |-> m]]
    /\ writes' = [writes EXCEPT ![t] = <<>>]
    /\ pc' = [pc EXCEPT ![t] = "send"]
    /\ ctx' = [ctx EXCEPT ![t] = cx]
    /\ UNCHANGED << connected, ret, args >>
    /\ UNCHANGED << sockVars, netVars, loopVars, curBorn, outstanding, stream0 >>

\* execute without "self.last_raw_bytes = b''": the bytes of one exchange
\* stay in front of the next
ExecEnter_NoReset(t, c, fql, m, cx) ==
    /\ cur' = [cur EXCEPT ![t] = c]
    /\ IF ~IsConnected
       THEN /\ Return(t, cx, NotConnectedError, lastRaw)
            /\ UNCHANGED frame
       ELSE /\ frame' = [frame EXCEPT ![t] = RequestFrame(fql, m)]
            /\ req' = [req EXCEPT ![t] = [fql |-> fql, mode |-> m]]
            /\ writes' = [writes EXCEPT ![t] = <<>>]
            /\ pc' = [pc EXCEPT ![t] = "send"]
            /\ ctx' = [ctx EXCEPT ![t] = cx]
            /\ UNCHANGED << connected, ret, args, lastRaw >>
    /\ UNCHANGED << sockVars, netVars, loopVars, curBorn, outstanding, stream0 >>

\* Lines 42-54: the connected check, the reset of last_raw_bytes, the frame
ExecEnter(t, c, fql, m, cx) ==
    /\ cur' = [cur EXCEPT ![t] = c]
    /\ IF ~IsConnected
       THEN /\ Return(t, cx, NotConnectedError, lastRaw)
            /\ UNCHANGED frame
       ELSE /\ lastRaw' = [lastRaw EXCEPT ![c] = <<>>]
            /\ frame' = [frame EXCEPT ![t] = RequestFrame(fql, m)]
            /\ req' = [req EXCEPT ![t] = [fql |-> fql, mode |-> m]]
            /\ writes' = [writes EXCEPT ![t] = <<>>]
            /\ pc' = [pc EXCEPT ![t] = "send"]
            /\ ctx' = [ctx EXCEPT ![t] = cx]
            /\ UNCHANGED << connected, ret, args >>
    /\ UNCHANGED << sockVars, netVars, loopVars, curBorn, outstanding, stream0 >>

\* A caller's execute(fql, mode) on cursor c
ExecCall(t, c, fql, m) ==
    /\ pc[t] = "idle"
    /\ curBorn[c] # "no"
    /\ unanswered < MaxPending \/ ~IsConnected
    /\ ExecEnter(t, c, fql, m, "user")

\* execute returns once the frame is written and leaves the response unread
ExecSend_NoRead(t, fails) ==
    /\ pc[t] = "send"
    /\ IF sock = 0 \/ sockSt # "open" \/ fails
       THEN /\ Return(t, ctx[t],
                      ExecExcept(IF sock = 0
                                 THEN Raise("AttributeError", "sendall", <<>>)
                                 ELSE Raise("socket.error", "sendall", <<>>)),
                      lastRaw)
            /\ UNCHANGED << unanswered, outstanding >>
       ELSE /\ unanswered' = unanswered + 1
            /\ outstanding' = outstanding + 1
            /\ Return(t, ctx[t], OkNone, lastRaw)
    /\ frame' = [frame EXCEPT ![t] = <<>>]
    /\ UNCHANGED << sockVars, inbox, eof, cur, curBorn, stream0, loopVars >>

\* self._conn.sock.sendall(header + payload_bytes)
ExecSend(t, fails) ==
    /\ pc[t] = "send"
    /\ IF sock = 0 \/ sockSt # "open" \/ fails
       THEN /\ Return(t, ctx[t],
                      ExecExcept(IF sock = 0
                                 THEN Raise("AttributeError", "sendall", <<>>)
                                 ELSE Raise("socket.error", "sendall", <<>>)),
                      lastRaw)
            /\ UNCHANGED << unanswered, outstanding, loopVars >>
       ELSE /\ writes' = [writes EXCEPT ![t] = Append(@, frame[t])]
            /\ unanswered' = unanswered + 1
            /\ outstanding' = outstanding + 1
            /\ pc' = [pc EXCEPT ![t] = "recv"]
            /\ phase' = [phase EXCEPT ![t] = "len"]
            /\ need' = [need EXCEPT ![t] = 4]
            /\ data' = [data EXCEPT ![t] = <<>>]
            /\ deliveries' = [deliveries EXCEPT ![t] = 0]
            /\ UNCHANGED << connected, ret, ctx, lastRaw, req, args >>
    /\ frame' = [frame EXCEPT ![t] = <<>>]
    /\ UNCHANGED << sockVars, inbox, eof, cur, curBorn, stream0 >>

\* ------------------------------------------------------------------------
\* Cursor._recv_n
\* ------------------------------------------------------------------------
\* An exception leaves _recv_n and, in execute, passes its except clause
RecvRaises(t, e) ==
    /\ Return(t, ctx[t], IF ctx[t] = "raw" THEN e ELSE ExecExcept(e), lastRaw)
    /\ outstanding' = IF ctx[t] = "raw" THEN outstanding ELSE outstanding - 1
    /\ phase' = [phase EXCEPT ![t] = "none"]
    /\ data' = [data EXCEPT ![t] = <<>>]
    /\ deliveries' = [deliveries EXCEPT ![t] = 0]
    /\ need' = [need EXCEPT ![t] = IF ctx[t] = "raw" THEN @ ELSE 0]

\* data = packet + data: the pieces end up in the order of arrival reversed
RecvAppend_Prepend(d, packet) == packet \o d

\* data += packet
RecvAppend(d, packet) == d \o packet

\* recv(n): every call asks for all n bytes again
RecvAsk_All(n, d) == n

\* recv(n - len(data)) may give at most this many bytes
RecvAsk(n, d) == n - Len(d)

\* The loop without "data += packet": what recv gives is dropped
RecvData_NoAppend(t, k) ==
    /\ pc[t] = "recv"
    /\ Len(data[t]) < need[t]
    /\ sock # 0
    /\ sockSt = "open"
    /\ k >= 1
    /\ k <= RecvAsk(need[t], data[t])
    /\ k <= Len(inbox)
    /\ inbox' = Drop(inbox, k)
    /\ deliveries' = [deliveries EXCEPT ![t] = @ + 1]
    /\ UNCHANGED << sockVars, connected, eof, unanswered, pc, ctx, cur, frame, phase,
                    need, data, args, ret, curBorn, lastRaw, req, writes, stream0,
                    outstanding >>

\* packet = self._conn.sock.recv(n - len(data)), k bytes arriving
RecvData(t, k) ==
    /\ pc[t] = "recv"
    /\ Len(data[t]) < need[t]
    /\ sock # 0
    /\ sockSt = "open"
    /\ k >= 1
    /\ k <= RecvAsk(need[t], data[t])
    /\ k <= Len(inbox)
    /\ data' = [data EXCEPT ![t] = RecvAppend(@, Take(inbox, k))]
    /\ inbox' = Drop(inbox, k)
    /\ deliveries' = [deliveries EXCEPT ![t] = @ + 1]
    /\ UNCHANGED << sockVars, connected, eof, unanswered, pc, ctx, cur, frame, phase,
                    need, args, ret, curBorn, lastRaw, req, writes, stream0,
                    outstanding >>

\* "if not packet: break" while reading a body: what has arrived is returned
RecvEOF_Break(t) ==
    /\ pc[t] = "recv"
    /\ Len(data[t]) < need[t]
    /\ sock # 0
    /\ sockSt = "open"
    /\ inbox = <<>>
    /\ eof
    /\ IF phase[t] = "body"
       THEN /\ need' = [need EXCEPT ![t] = Len(data[t])]
            /\ UNCHANGED << pc, ctx, ret, connected, args, lastRaw, req, writes,
                            outstanding, phase, data, deliveries >>
       ELSE RecvRaises(t, Raise("OperationalError", "Connection closed by server", <<>>))
    /\ UNCHANGED << sockVars, netVars, cur, frame, curBorn, stream0 >>

\* recv returns b'' and the read loop marks the Session disconnected before
\* it raises
RecvEOF_Disconnect(t) ==
    /\ pc[t] = "recv"
    /\ Len(data[t]) < need[t]
    /\ sock # 0
    /\ sockSt = "open"
    /\ inbox = <<>>
    /\ eof
    /\ connected' = FALSE
    /\ ret' = [ret EXCEPT ![t] =
                 Ended("execute", Raise("OperationalError", "Connection closed by server", <<>>))]
    /\ pc' = [pc EXCEPT ![t] = "idle"]
    /\ ctx' = [ctx EXCEPT ![t] = "none"]
    /\ req' = [req EXCEPT ![t] = NoReq]
    /\ writes' = [writes EXCEPT ![t] = <<>>]
    /\ outstanding' = outstanding - 1
    /\ phase' = [phase EXCEPT ![t] = "none"]
    /\ data' = [data EXCEPT ![t] = <<>>]
    /\ deliveries' = [deliveries EXCEPT ![t] = 0]
    /\ need' = [need EXCEPT ![t] = 0]
    /\ UNCHANGED << args, lastRaw, sockVars, netVars, cur, frame, curBorn, stream0 >>

\* recv returns b'': the server has closed and nothing is left to read
RecvEOF(t) ==
    /\ pc[t] = "recv"
    /\ Len(data[t]) < need[t]
    /\ sock # 0
    /\ sockSt = "open"
    /\ inbox = <<>>
    /\ eof
    /\ RecvRaises(t, Raise("OperationalError", "Connection closed by server", <<>>))
    /\ UNCHANGED << sockVars, netVars, cur, frame, curBorn, stream0 >>

\* A failed recv answered by a retry: the request is written again and the
\* response read from its start (once; the second failure is raised)
RecvFail_Retry(t) ==
    /\ pc[t] = "recv"
    /\ Len(data[t]) < need[t]
    /\ IF Len(writes[t]) < 2
       THEN /\ writes' = [writes EXCEPT ![t] = Append(@, RequestFrame(req[t].fql, req[t].mode))]
            /\ phase' = [phase EXCEPT ![t] = "len"]
            /\ need' = [need EXCEPT ![t] = 4]
            /\ data' = [data EXCEPT ![t] = <<>>]
            /\ deliveries' = [deliveries EXCEPT ![t] = 0]
            /\ UNCHANGED << pc, ctx, ret, connected, args, lastRaw, req, outstanding >>
       ELSE RecvRaises(t, Raise("socket.error", "recv", <<>>))
    /\ UNCHANGED << sockVars, netVars, cur, frame, curBorn, stream0 >>

\* recv raises: no socket (sock is None), a closed socket, a timeout, a reset
RecvFail(t) ==
    /\ pc[t] = "recv"
    /\ Len(data[t]) < need[t]
    /\ RecvRaises(t, IF sock = 0
                     THEN Raise("AttributeError", "recv", <<>>)
                     ELSE Raise("socket.error", "recv", <<>>))
    /\ UNCHANGED << sockVars, netVars, cur, frame, curBorn, stream0 >>

\* The loop ends: last_raw_bytes += data; return data.  In execute the 4 bytes
\* give resp_len and the body is read next, or the body is parsed
RecvReturn(t) ==
    /\ pc[t] = "recv"
    /\ Len(data[t]) >= need[t]
    /\ LET raw == [lastRaw EXCEPT ![cur[t]] = @ \o data[t]] IN
       IF phase[t] = "len" THEN
           /\ lastRaw' = raw
           /\ phase' = [phase EXCEPT ![t] = "body"]
           /\ need' = [need EXCEPT ![t] = Unpack32(data[t])]
           /\ data' = [data EXCEPT ![t] = <<>>]
           /\ deliveries' = [deliveries EXCEPT ![t] = 0]
           /\ UNCHANGED << connected, ret, pc, ctx, outstanding, req, writes, args >>
       ELSE IF phase[t] = "body" THEN
           /\ Return(t, ctx[t], ExecExcept(ParseBody(req[t].mode, data[t])), raw)
           /\ outstanding' = outstanding - 1
           /\ phase' = [phase EXCEPT ![t] = "none"]
           /\ need' = [need EXCEPT ![t] = 0]
           /\ data' = [data EXCEPT ![t] = <<>>]
           /\ deliveries' = [deliveries EXCEPT ![t] = 0]
       ELSE
           /\ Return(t, "raw", [kind |-> "ok", msg |-> "bytes", val |-> data[t]], raw)
           /\ phase' = [phase EXCEPT ![t] = "none"]
           /\ data' = [data EXCEPT ![t] = <<>>]
           /\ UNCHANGED << need, deliveries, outstanding >>
    /\ UNCHANGED << sockVars, netVars, cur, frame, curBorn, stream0 >>

\* ------------------------------------------------------------------------
\* FrancoDB: cursor, connect, close
\* ------------------------------------------------------------------------
\* FrancoDB.cursor(): Cursor(self)
CursorCall(t, c) ==
    /\ pc[t] = "idle"
    /\ c \in UserCursors
    /\ curBorn[c] = "no"
    /\ curBorn' = [curBorn EXCEPT ![c] = IF IsConnected THEN "connected" ELSE "disconnected"]
    /\ lastRaw' = [lastRaw EXCEPT ![c] = <<>>]
    /\ UNCHANGED << sockVars, connected, netVars, pc, ctx, cur, frame, loopVars, args,
                    ret, req, writes, stream0, outstanding >>

\* connect logging in as soon as one of username and password is given
AfterOpen_AnyCredential(a) ==
    IF a.username # <<>> \/ a.password # <<>> THEN "conn_login"
    ELSE IF a.database # <<>> THEN "conn_db"
    ELSE "idle"

\* After create_connection and the cursor: the login, the database, or the end
AfterOpen(a) ==
    IF a.username # <<>> /\ a.password # <<>> THEN "conn_login"
    ELSE IF a.database # <<>> THEN "conn_db"
    ELSE "idle"

\* connect(username, password, database): create_connection raises, or gives
\* a new socket; then _connected = True and the cursor of the with statement
ConnectCall(t, a, opens) ==
    /\ pc[t] = "idle"
    /\ IF ~opens
       THEN /\ ConnectEnds(t, Raise("socket.error", "create_connection", <<>>), lastRaw)
            /\ UNCHANGED << sockVars, netVars >>
       ELSE /\ sock' = 1
            /\ sockSt' = "open"
            /\ inbox' = <<>>
            /\ eof' = FALSE
            /\ unanswered' = 0
            /\ connected' = TRUE
            /\ lastRaw' = [lastRaw EXCEPT ![ConnCursor(t)] = <<>>]
            /\ args' = [args EXCEPT ![t] = IF AfterOpen(a) = "idle" THEN NoArgs ELSE a]
            /\ pc' = [pc EXCEPT ![t] = AfterOpen(a)]
            /\ ret' = [ret EXCEPT ![t] =
                         IF AfterOpen(a) = "idle" THEN Ended("connect", OkNone) ELSE @]
            /\ UNCHANGED ctx
    /\ UNCHANGED << cur, frame, loopVars, curBorn, req, writes, stream0, outstanding >>

\* f"LOGIN {username} {password};"
LoginQuery(a) == S_LOGIN \o a.username \o S_SPACE \o a.password \o S_SEMI

\* f"2ESTA5DEM {database};"
UseDbQuery(a) == S_USEDB \o a.database \o S_SEMI

\* res = cur.execute(f"LOGIN {username} {password};")
ConnLogin(t) ==
    /\ pc[t] = "conn_login"
    /\ ExecEnter(t, ConnCursor(t), LoginQuery(args[t]), "text", "login")

\* cur.execute(f"2ESTA5DEM {database};")
ConnUseDb(t) ==
    /\ pc[t] = "conn_db"
    /\ ExecEnter(t, ConnCursor(t), UseDbQuery(args[t]), "text", "usedb")

\* close() without the try around sock.close(): what it raises leaves close
CloseSock_NoTry(t, raised) ==
    /\ pc[t] = "idle"
    /\ IF sock # 0
       THEN /\ sockSt' = "closed"
            /\ inbox' = <<>>
            /\ eof' = FALSE
            /\ unanswered' = 0
       ELSE UNCHANGED << sockSt, netVars >>
    /\ IF sock # 0 /\ raised
       THEN /\ ret' = [ret EXCEPT ![t] = Ended("close", Raise("socket.error", "close", <<>>))]
            /\ UNCHANGED pc
       ELSE /\ pc' = [pc EXCEPT ![t] = "close_sock"]
            /\ UNCHANGED ret
    /\ UNCHANGED << sock, connected, ctx, cur, frame, loopVars, args,
                    curBorn, lastRaw, req, writes, stream0, outstanding >>

\* close(), lines 194-196: if self.sock: try: self.sock.close() except: pass.
\* Whether sock.close() raised or not, line 197 is next
CloseSock(t, raised) ==
    /\ pc[t] = "idle"
    /\ pc' = [pc EXCEPT ![t] = "close_sock"]
    /\ IF sock # 0
       THEN /\ sockSt' = "closed"
            /\ inbox' = <<>>
            /\ eof' = FALSE
            /\ unanswered' = 0
       ELSE UNCHANGED << sockSt, netVars >>
    /\ UNCHANGED << sock, connected, ctx, cur, frame, loopVars, args, ret,
                    curBorn, lastRaw, req, writes, stream0, outstanding >>

\* close(), line 197: self.sock = None
CloseClearSock(t) ==
    /\ pc[t] = "close_sock"
    /\ sock' = 0
    /\ sockSt' = "none"
    /\ pc' = [pc EXCEPT ![t] = "close_flag"]
    /\ UNCHANGED << connected, netVars, ctx, cur, frame, loopVars, args,
                    ret, curBorn, lastRaw, req, writes, stream0, outstanding >>

\* close(), line 198: self._connected = False, and close returns
CloseClearFlag(t) ==
    /\ pc[t] = "close_flag"
    /\ connected' = FALSE
    /\ pc' = [pc EXCEPT ![t] = "idle"]
    /\ ret' = [ret EXCEPT ![t] = Ended("close", OkNone)]
    /\ UNCHANGED << sockVars, netVars, ctx, cur, frame, loopVars, args, curBorn,
                    lastRaw, req, writes, stream0, outstanding >>

\* ------------------------------------------------------------------------
\* The server end of the transport
\* ------------------------------------------------------------------------
\* Bodies the server answers with: "OK", "NO", "ERROR", a byte that is no
\* UTF-8, and nothing
B_OK == <<79, 75>>
B_NO == <<78, 79>>
B_ERROR == <<69, 82, 82, 79, 82>>
B_BAD == <<200>>

Bodies == { B_OK, B_NO, B_ERROR, B_BAD, <<>> }

\* Response: [4 bytes length, big-endian][body]
ResponseFrame(body) == Pack32(Len(body)) \o body

\* The server answers a request with the first `cut` bytes of a frame; when
\* that is not the whole frame it has gone away
ServerRespond(body, cut) ==
    /\ sockSt = "open"
    /\ ~eof
    /\ unanswered > 0
    /\ cut \in 0..Len(ResponseFrame(body))
    /\ Len(inbox) + cut <= MaxInbox
    /\ inbox' = inbox \o Take(ResponseFrame(body), cut)
    /\ eof' = (cut < Len(ResponseFrame(body)))
    /\ unanswered' = unanswered - 1
    /\ UNCHANGED << sockVars, connected, pc, ctx, cur, frame, loopVars, args, ret,
                    curBorn, lastRaw, req, writes, stream0, outstanding >>

\* ------------------------------------------------------------------------
\* Specifications
\* ------------------------------------------------------------------------
Users == { <<>>, <<98>> }

Passwords == { <<>>, <<112>> }

Databases == { <<>>, <<100>> }

ConnectArgs == [username : Users, password : Passwords, database : Databases]

Queries == { <<83>> }

Modes == { "text", "json", "binary" }

Init ==
    /\ sock = 0
    /\ connected = FALSE
    /\ sockSt = "none"
    /\ inbox = <<>>
    /\ eof = FALSE
    /\ unanswered = 0
    /\ pc = [t \in Threads |-> "idle"]
    /\ ctx = [t \in Threads |-> "none"]
    /\ cur = [t \in Threads |-> 1]
    /\ frame = [t \in Threads |-> <<>>]
    /\ phase = [t \in Threads |-> "none"]
    /\ need = [t \in Threads |-> 0]
    /\ data = [t \in Threads |-> <<>>]
    /\ args = [t \in Threads |-> NoArgs]
    /\ ret = [t \in Threads |-> Ended("none", NoResult)]
    /\ curBorn = [c \in Cursors |-> "no"]
    /\ lastRaw = [c \in Cursors |-> <<>>]
    /\ req = [t \in Threads |-> NoReq]
    /\ writes = [t \in Threads |-> <<>>]
    /\ outstanding = 0
    /\ deliveries = [t \in Threads |-> 0]
    /\ stream0 = <<>>

\* The calls of a caller on the Session and on the cursors cs
Calls(t, cs) ==
    \/ \E c \in cs : CursorCall(t, c)
    \/ \E a \in ConnectArgs, opens \in BOOLEAN : ConnectCall(t, a, opens)
    \/ \E c \in cs, fql \in Queries, m \in Modes : ExecCall(t, c, fql, m)
    \/ \E raised \in BOOLEAN : CloseSock(t, raised)

\* The steps inside connect and close
Inner(t) ==
    \/ ConnLogin(t)
    \/ ConnUseDb(t)
    \/ CloseClearSock(t)
    \/ CloseClearFlag(t)

\* recv gives all it was asked for, or all there is
Whole(t) == Min(RecvAsk(need[t], data[t]), Len(inbox))

\* The exchange of execute, the transport delivering in whole pieces
Exchange(t) ==
    \/ \E fails \in BOOLEAN : ExecSend(t, fails)
    \/ RecvData(t, Whole(t))
    \/ RecvEOF(t)
    \/ RecvFail(t)
    \/ RecvReturn(t)

\* The exchange of execute, the transport delivering in pieces of any size
ExchangeInPieces(t) ==
    \/ \E fails \in BOOLEAN : ExecSend(t, fails)
    \/ \E k \in 1..MaxInbox : RecvData(t, k)
    \/ RecvEOF(t)
    \/ RecvFail(t)
    \/ RecvReturn(t)

\* The server answers with a whole frame, or goes away before it
Server == \E body \in Bodies : \E cut \in {0, Len(ResponseFrame(body))} : ServerRespond(body, cut)

\* The server answers "OK" or with an empty body, or goes away at any byte
\* of its answer
ServerCutting == \E body \in {B_OK, <<>>}, cut \in 0..MaxInbox : ServerRespond(body, cut)

\* One caller, the whole life of a Session
Next == Calls(1, {1}) \/ Inner(1) \/ Exchange(1) \/ Server

Spec == Init /\ [][Next]_vars

\* A connected Session with a cursor, nothing sent yet
InitConnected ==
    /\ sock = 1
    /\ connected = TRUE
    /\ sockSt = "open"
    /\ inbox = <<>>
    /\ eof = FALSE
    /\ unanswered = 0
    /\ pc = [t \in Threads |-> "idle"]
    /\ ctx = [t \in Threads |-> "none"]
    /\ cur = [t \in Threads |-> 1]
    /\ frame = [t \in Threads |-> <<>>]
    /\ phase = [t \in Threads |-> "none"]
    /\ need = [t \in Threads |-> 0]
    /\ data = [t \in Threads |-> <<>>]
    /\ args = [t \in Threads |-> NoArgs]
    /\ ret = [t \in Threads |-> Ended("none", NoResult)]
    /\ curBorn = [c \in Cursors |-> IF c \in UserCursors THEN "connected" ELSE "no"]
    /\ lastRaw = [c \in Cursors |-> <<>>]
    /\ req = [t \in Threads |-> NoReq]
    /\ writes = [t \in Threads |-> <<>>]
    /\ outstanding = 0
    /\ deliveries = [t \in Threads |-> 0]
    /\ stream0 = <<>>

\* One caller's executes on a connected Session, byte by byte
NextExchange ==
    \/ \E fql \in Queries, m \in Modes : ExecCall(1, 1, fql, m)
    \/ ExchangeInPieces(1)
    \/ ServerCutting

SpecExchange == InitConnected /\ [][NextExchange]_vars

\* The same, every call of sendall and recv returning: a step of the exchange
\* that can be taken is taken
SpecExchangeFair == InitConnected /\ [][NextExchange]_vars /\ WF_vars(ExchangeInPieces(1))

\* Streams of up to MaxStream bytes
StreamBytes == {65, 66}

Streams == UNION { [1..n -> StreamBytes] : n \in 0..MaxStream }

\* A bare _recv_n(n) of a cursor on a stream
InitRecv ==
    /\ sock = 1
    /\ connected = TRUE
    /\ sockSt = "open"
    /\ inbox \in Streams
    /\ stream0 = inbox
    /\ eof \in BOOLEAN
    /\ unanswered = 0
    /\ pc = [t \in Threads |-> IF t = 1 THEN "recv" ELSE "idle"]
    /\ ctx = [t \in Threads |-> IF t = 1 THEN "raw" ELSE "none"]
    /\ cur = [t \in Threads |-> 1]
    /\ frame = [t \in Threads |-> <<>>]
    /\ phase = [t \in Threads |-> IF t = 1 THEN "raw" ELSE "none"]
    /\ need \in { [t \in Threads |-> IF t = 1 THEN n ELSE 0] : n \in 0..MaxN }
    /\ data = [t \in Threads |-> <<>>]
    /\ args = [t \in Threads |-> NoArgs]
    /\ ret = [t \in Threads |-> Ended("none", NoResult)]
    /\ curBorn = [c \in Cursors |-> IF c \in UserCursors THEN "connected" ELSE "no"]
    /\ lastRaw = [c \in Cursors |-> <<>>]
    /\ req = [t \in Threads |-> NoReq]
    /\ writes = [t \in Threads |-> <<>>]
    /\ outstanding = 0
    /\ deliveries = [t \in Threads |-> 0]

NextRecv ==
    \/ \E k \in 1..(MaxN + 1) : RecvData(1, k)
    \/ RecvEOF(1)
    \/ RecvFail(1)
    \/ RecvReturn(1)

SpecRecv == InitRecv /\ [][NextRecv]_vars

\* Query strings of up to MaxQuery characters: "A", e-acute, the euro sign,
\* a character outside the basic plane
QueryChars == {65, 233, 8364, 128512}

EncQueries == UNION { [1..n -> QueryChars] : n \in 0..MaxQuery }

\* One caller's requests on a connected Session, the server silent
NextEnc ==
    \/ \E fql \in EncQueries, m \in Modes : ExecCall(1, 1, fql, m)
    \/ \E fails \in BOOLEAN : ExecSend(1, fails)
    \/ RecvFail(1)

SpecEnc == InitConnected /\ [][NextEnc]_vars

\* Two callers on one connected Session, each executing on its own cursor,
\* with nothing but the interpreter to order their steps; the server answers
\* every request with the frame of an empty body
NextMT ==
    \/ \E t \in Threads :
          \/ \E fql \in Queries : ExecCall(t, t, fql, "text")
          \/ \E fails \in BOOLEAN : ExecSend(t, fails)
          \/ RecvData(t, Whole(t))
          \/ RecvFail(t)
          \/ RecvReturn(t)
    \/ ServerRespond(<<>>, Len(ResponseFrame(<<>>)))

SpecMT == InitConnected /\ [][NextMT]_vars

\* ------------------------------------------------------------------------
\* The server's response bodies (spec.md 4.3, the layout the decoders read)
\* ------------------------------------------------------------------------
RECURSIVE Concat(_)
Concat(ss) == IF ss = <<>> THEN <<>> ELSE Head(ss) \o Concat(Tail(ss))

\* [4-byte length, big-endian][UTF-8 bytes]
EncodeStr(s) == Pack32(Len(Utf8Encode(s))) \o Utf8Encode(s)

\* 0xFF ERROR and 0x01 SIMPLE MESSAGE: tag, length L, L bytes
EncodeMessage(tag, s) == <<tag>> \o EncodeStr(s)

\* Per column: 1 reserved type byte, 4-byte name length, the name
EncodeCols(cols) == Concat([i \in 1..Len(cols) |-> <<0>> \o EncodeStr(cols[i])])

\* Per cell of a row: 4-byte value length, the value
EncodeRow(row) == Concat([j \in 1..Len(row) |-> EncodeStr(row[j])])

\* 0x02 TABLE RESULT: tag, C, R, the C columns, the R rows of C values
EncodeTable(cols, rows) ==
    <<2>> \o Pack32(Len(cols)) \o Pack32(Len(rows)) \o EncodeCols(cols)
          \o Concat([i \in 1..Len(rows) |-> EncodeRow(rows[i])])

\* One exchange to come: the mode the caller asks for, what the server
\* answers with (form, the message s or the table cols and rows), the body
\* wf that encodes it and the body the server sends
Scenario(m, f, s, cols, rows, wf, sent) ==
    [mode |-> m, form |-> f, s |-> s, cols |-> cols, rows |-> rows, wf |-> wf, sent |-> sent]

\* Text and JSON answers: up to MaxText pieces of " ", "{", "ERROR", "x", e-acute
TextPieces == { <<32>>, <<123>>, S_ERROR, <<120>>, <<233>> }

TextStrs == { Concat(ps) : ps \in UNION { [1..n -> TextPieces] : n \in 0..MaxText } }

TextScenarios ==
    { Scenario(m, "text", s, <<>>, <<>>, Utf8Encode(s), Utf8Encode(s)) :
        m \in {"text", "json"}, s \in TextStrs }

\* Messages: "", "A", " ERROR ", "{ERROR", e-acute
MsgStrs == { <<>>, <<65>>, <<32>> \o S_ERROR \o <<32>>, <<123>> \o S_ERROR, <<233>> }

MessageOf(f, s) ==
    Scenario("binary", f, s, <<>>, <<>>,
             EncodeMessage(IF f = "error" THEN 255 ELSE 1, s),
             EncodeMessage(IF f = "error" THEN 255 ELSE 1, s))

MessageScenarios == { MessageOf(f, s) : f \in {"error", "message"}, s \in MsgStrs }

\* Column i is named "a", "b", ...
ColNames(c) == [i \in 1..c |-> <<96 + i>>]

TableOf(cols, rows) ==
    Scenario("binary", "table", <<>>, cols, rows, EncodeTable(cols, rows), EncodeTable(cols, rows))

\* Tables of up to MaxCols columns and MaxRows rows of "1" and "A"
GridStrs == { <<49>>, <<65>> }

Grids(c, r) == [1..r -> [1..c -> GridStrs]]

GridScenarios ==
    UNION { { TableOf(ColNames(c), rows) : rows \in Grids(c, r) } :
              c \in 0..MaxCols, r \in 0..MaxRows }

\* Cell values: "", "-", "1", "-7", "05", "A", "1.5", "1e3", " 1", "+1", "1_0",
\* "nan", Arabic-Indic three, "-" and Arabic-Indic three, superscript two
CellStrs ==
    { <<>>, <<45>>, <<49>>, <<45, 55>>, <<48, 53>>, <<65>>, <<49, 46, 53>>,
      <<49, 101, 51>>, <<32, 49>>, <<43, 49>>, <<49, 95, 48>>, <<110, 97, 110>>,
      <<1635>>, <<45, 1635>>, <<178>> }

\* Tables of one column and one row
CellScenarios == { TableOf(ColNames(1), << <<v>> >>) : v \in CellStrs }

WellFormed == MessageScenarios \cup GridScenarios \cup CellScenarios

\* The bodies that get damaged: the messages, the tables of "A"
DamageBase ==
    { w \in WellFormed :
        \/ w.form # "table" /\ Len(w.s) <= 1
        \/ w.form = "table" /\ \A i \in 1..Len(w.rows) : \A j \in 1..Len(w.cols) : w.rows[i][j] = <<65>> }

\* A body that stops before its declared lengths are met
CutScenarios ==
    UNION { { [w EXCEPT !.sent = Take(w.wf, k)] : k \in 0..(Len(w.wf) - 1) } : w \in DamageBase }

\* A body that goes on after them
ExtraScenarios == { [w EXCEPT !.sent = w.wf \o <<0>>] : w \in DamageBase }

\* Bodies with a tag that is none of 0xFF, 0x01, 0x02, and a message of
\* bytes that are no UTF-8
UnknownScenarios ==
    { Scenario("binary", "unknown", <<>>, <<>>, <<>>, <<>>, <<tag>> \o rest) :
        tag \in {0, 3, 66}, rest \in { <<>>, Pack32(0) } }

BadUtf8Scenarios ==
    { Scenario("binary", f, <<>>, <<>>, <<>>, <<>>,
               <<IF f = "error" THEN 255 ELSE 1>> \o Pack32(1) \o <<200>>) :
        f \in {"error", "message"} }

\* The last set: the message "A" and the text "OK", asked for with a mode
\* string that is none of 'text', 'json', 'binary'
Scenarios ==
    TextScenarios \cup WellFormed \cup CutScenarios \cup ExtraScenarios
        \cup UnknownScenarios \cup BadUtf8Scenarios
        \cup { Scenario(m, "other", <<>>, <<>>, <<>>, b, b) :
                   m \in { "BINARY", "xml" }, b \in { EncodeMessage(1, <<65>>), B_OK } }

\* A connected Session with a cursor; stream0 is the exchange to come
InitDecode ==
    /\ sock = 1
    /\ connected = TRUE
    /\ sockSt = "open"
    /\ inbox = <<>>
    /\ eof = FALSE
    /\ unanswered = 0
    /\ pc = [t \in Threads |-> "idle"]
    /\ ctx = [t \in Threads |-> "none"]
    /\ cur = [t \in Threads |-> 1]
    /\ frame = [t \in Threads |-> <<>>]
    /\ phase = [t \in Threads |-> "none"]
    /\ need = [t \in Threads |-> 0]
    /\ data = [t \in Threads |-> <<>>]
    /\ args = [t \in Threads |-> NoArgs]
    /\ ret = [t \in Threads |-> Ended("none", NoResult)]
    /\ curBorn = [c \in Cursors |-> IF c \in UserCursors THEN "connected" ELSE "no"]
    /\ lastRaw = [c \in Cursors |-> <<>>]
    /\ req = [t \in Threads |-> NoReq]
    /\ writes = [t \in Threads |-> <<>>]
    /\ outstanding = 0
    /\ deliveries = [t \in Threads |-> 0]
    /\ stream0 \in Scenarios

\* The server answers a request with the whole frame of its body, once the
\* answer before it has been read
ServerAnswer ==
    /\ sockSt = "open"
    /\ ~eof
    /\ unanswered > 0
    /\ inbox = <<>>
    /\ inbox' = ResponseFrame(stream0.sent)
    /\ unanswered' = unanswered - 1
    /\ UNCHANGED << sockVars, connected, eof, pc, ctx, cur, frame, loopVars, args, ret,
                    curBorn, lastRaw, req, writes, stream0, outstanding >>

\* One caller's executes in the mode of the scenario, answered by the server
NextDecode ==
    \/ \E fql \in Queries : ExecCall(1, 1, fql, stream0.mode)
    \/ \E fails \in BOOLEAN : ExecSend(1, fails)
    \/ RecvData(1, Whole(1))
    \/ RecvFail(1)
    \/ RecvReturn(1)
    \/ ServerAnswer

SpecDecode == InitDecode /\ [][NextDecode]_vars

\* One caller executing on its cursor while another calls close() on the
\* Session, with nothing but the interpreter to order their steps
NextCancel ==
    \/ \E fql \in Queries, m \in Modes : ExecCall(1, 1, fql, m)
    \/ Exchange(1)
    \/ \E raised \in BOOLEAN : CloseSock(2, raised)
    \/ CloseClearSock(2)
    \/ CloseClearFlag(2)
    \/ Server

SpecCancel == InitConnected /\ [][NextCancel]_vars

\* ------------------------------------------------------------------------
\* Properties of the Session's life (Spec)
\* ------------------------------------------------------------------------
\* The transport as a call on it would change it
transport == << sockSt, inbox, eof, unanswered, writes, outstanding >>

\* C1: execute on a Session that does not report itself connected raises the
\* "Database is not connected" OperationalError in that very step and leaves
\* the transport untouched, for every cursor, made before or after the
\* Session was connected or closed.
NotConnectedFailsFast ==
    [][\A t \in Threads, c \in UserCursors, fql \in Queries, m \in Modes :
          (ExecCall(t, c, fql, m) /\ ~IsConnected) =>
              /\ ret'[t] = Ended("execute", NotConnectedError)
              /\ pc'[t] = "idle"
              /\ UNCHANGED transport]_vars

\* An execute has failed as not connected on a cursor made while the Session
\* was connected, after close()
NotConnectedWitness ==
    /\ ret[1] = Ended("execute", NotConnectedError)
    /\ curBorn[1] = "connected"
    /\ ~IsConnected
    /\ sock = 0
    /\ pc[1] = "idle"

\* connect() has just ended for thread t with an exception of kind k
ConnectRaised(t, k) ==
    /\ pc[t] = "idle"
    /\ ret[t].op = "connect"
    /\ ret[t].out.kind = k

\* C2: when the login of connect fails with an authentication error the
\* Session is left closed: is_connected() is false and the socket released.
AuthFailureLeavesClosed ==
    \A t \in Threads : ConnectRaised(t, "AuthError") => (~IsConnected /\ sockSt # "open")

\* C3: in connect, a LOGIN response whose text has neither "OK" nor "SUCCESS"
\* raises AuthError and no other kind of error; one that has either raises
\* no AuthError.
LoginAnswerDecidesAuthError ==
    [][\A t \in Threads :
          ( /\ pc[t] = "recv"
            /\ ctx[t] = "login"
            /\ phase[t] = "body"
            /\ Utf8Valid(data[t])
            /\ RecvReturn(t) ) =>
              LET text == Utf8Decode(data[t])
                  auth == ConnectRaised(t, "AuthError")'
              IN  IF ~Contains(text, S_OK) /\ ~Contains(text, S_SUCCESS)
                  THEN auth
                  ELSE ~auth]_vars

\* C4: whenever connect() raises, at whichever step and with whatever kind of
\* error, is_connected() is false afterwards.
FailedConnectLeavesDisconnected ==
    \A t \in Threads :
        (pc[t] = "idle" /\ ret[t].op = "connect" /\ ret[t].out.kind # "ok") => ~IsConnected

\* C5: close() never raises and leaves sock = None and is_connected() false,
\* from any state of the Session; a close() after a close() goes through the
\* same steps and finds and leaves the Session as the first one left it.
CloseTotalIdempotent ==
    \A t \in Threads :
        (ret[t].op = "close" /\ pc[t] \in {"idle", "close_sock", "close_flag"}) =>
            /\ ret[t].out = OkNone
            /\ sock = 0
            /\ sockSt = "none"
            /\ ~connected
            /\ ~IsConnected

\* A second close() is under way on a Session that was connected and closed
CloseTwiceWitness ==
    /\ ret[1].op = "close"
    /\ pc[1] = "close_flag"
    /\ curBorn[1] = "connected"

\* ------------------------------------------------------------------------
\* Properties of _recv_n (SpecRecv)
\* ------------------------------------------------------------------------
\* The bare _recv_n of thread 1 has ended
RecvEnded == pc[1] = "idle" /\ ret[1].op = "recv_n"

\* C6: _recv_n(n) returns exactly n bytes, the next n of the stream in their
\* order, or it raises; it never holds or returns more than n bytes, and what
\* it took off the stream is what it holds: never more than n bytes.
RecvExactOrRaises ==
    /\ pc[1] = "recv" =>
           /\ Len(data[1]) <= need[1]
           /\ data[1] \o inbox = stream0
    /\ RecvEnded =>
           IF ret[1].out.kind = "ok"
           THEN /\ Len(ret[1].out.val) = need[1]
                /\ \A i \in 1..need[1] : ret[1].out.val[i] = stream0[i]
                /\ Len(stream0) - Len(inbox) = need[1]
                /\ inbox = SubSeq(stream0, need[1] + 1, Len(stream0))
           ELSE /\ ret[1].out.kind \in {"OperationalError", "socket.error"}
                /\ Len(stream0) - Len(inbox) < need[1]

\* Two bytes were asked of a longer stream and came one at a time
RecvExactWitness ==
    /\ RecvEnded
    /\ ret[1].out.kind = "ok"
    /\ need[1] = 2
    /\ deliveries[1] = 2
    /\ Len(inbox) = 1

\* What _recv_n(n) returns when the n bytes come as one delivery
OneDelivery(stream, n) == RecvAppend(<<>>, Take(stream, n))

\* C7: the buffer _recv_n returns is the one a single delivery of the same
\* bytes gives, however many deliveries (1 to n) the bytes came in.
RecvSplitIndependent ==
    (RecvEnded /\ ret[1].out.kind = "ok") =>
        /\ ret[1].out.val = OneDelivery(stream0, need[1])
        /\ need[1] > 0 => deliveries[1] \in 1..need[1]

\* MaxN bytes, not all the same, came in MaxN deliveries of one byte
RecvSplitWitness ==
    /\ RecvEnded
    /\ ret[1].out.kind = "ok"
    /\ need[1] = MaxN
    /\ deliveries[1] = MaxN
    /\ ret[1].out.val[1] # ret[1].out.val[MaxN]

\* ------------------------------------------------------------------------
\* Properties of the exchange (SpecExchange)
\* ------------------------------------------------------------------------
ConnectionClosedError == Raise("OperationalError", "Connection closed by server", <<>>)

\* Outcomes of execute that come from the decoders
Decoded(e) ==
    \/ e.kind = "ok"
    \/ e.kind = "QueryError"
    \/ e.kind = "OperationalError" /\ e.msg \in {"Received non-text data", "Binary parse failed"}

\* raw is a 4-byte length and exactly as many body bytes as it declares
WholeFrame(raw) == Len(raw) >= 4 /\ Len(raw) = 4 + Unpack32(Take(raw, 4))

\* C8: when recv reports end-of-input before the 4 bytes of the length or the
\* declared bytes of the body are there, execute raises the connection-closed
\* OperationalError; and whatever a decoder produced, result or error, it
\* produced from a body of the declared length.
TruncatedFrameIsFatal ==
    /\ [](\A t \in Threads :
            (pc[t] = "idle" /\ ret[t].op = "execute" /\ Decoded(ret[t].out)) =>
                WholeFrame(lastRaw[cur[t]]))
    /\ [][\A t \in Threads :
            (RecvEOF(t) /\ ctx[t] = "user") =>
                /\ pc'[t] = "idle"
                /\ ret'[t] = Ended("execute", ConnectionClosedError)
                /\ Len(lastRaw'[cur[t]]) \in {0, 4}]_vars

\* The server went away in the middle of a body and execute raised
TruncatedBodyWitness ==
    /\ pc[1] = "idle"
    /\ ret[1] = Ended("execute", ConnectionClosedError)
    /\ Len(lastRaw[1]) = 4
    /\ Unpack32(lastRaw[1]) > 0
    /\ eof

\* ------------------------------------------------------------------------
\* Properties of the request frame (SpecEnc)
\* ------------------------------------------------------------------------
\* Mode tags: 'Q' text, 'J' json, 'B' binary
ModeTag(m) == CASE m = "text" -> 81 [] m = "json" -> 74 [] m = "binary" -> 66

\* The big-endian number in bytes a+1..a+4 of w
BigEndianAt(w, a) == w[a + 1] * 16777216 + w[a + 2] * 65536 + w[a + 3] * 256 + w[a + 4]

\* C9: execute hands the transport, in one sendall call, the mode tag, the
\* payload's byte count as 4 big-endian bytes, and the payload, the UTF-8 of
\* the query.
RequestFrameLayout ==
    \A t \in Threads :
        /\ pc[t] = "send" => writes[t] = <<>>
        /\ pc[t] = "recv" =>
              /\ Len(writes[t]) = 1
              /\ LET w == writes[t][1]
                     payload == SubSeq(w, 6, Len(w))
                 IN  /\ Len(w) >= 5
                     /\ w[1] = ModeTag(req[t].mode)
                     /\ BigEndianAt(w, 1) = Len(payload)
                     /\ Utf8Valid(payload)
                     /\ Utf8Decode(payload) = req[t].fql
                     /\ payload = Utf8Encode(req[t].fql)

\* A json request of two characters, seven bytes of payload, has been written
RequestFrameWitness ==
    /\ pc[1] = "recv"
    /\ req[1].mode = "json"
    /\ req[1].fql = <<8364, 128512>>
    /\ writes[1] = << <<74, 0, 0, 0, 7, 226, 130, 172, 240, 159, 152, 128>> >>

\* ------------------------------------------------------------------------
\* Properties of concurrent callers (SpecMT)
\* ------------------------------------------------------------------------
\* The callers that have written a frame and are reading its response
Reading == { t \in Threads : pc[t] = "recv" }

\* C10, as stated: at most one request is in flight on the Session at any
\* time, whichever cursors and callers the requests come from.
AtMostOneInFlight == outstanding <= 1

\* C10, amended: every frame in flight belongs to a caller that is still
\* inside the execute that wrote it, reading its response, and no execute
\* writes twice; so each caller has at most one request in flight, and the
\* Session as many as it has callers inside execute.
InFlightOnePerCaller ==
    /\ outstanding = Cardinality(Reading)
    /\ \A t \in Threads :
          /\ Len(writes[t]) <= 1
          /\ pc[t] = "recv" <=> Len(writes[t]) = 1

\* A caller's second request is in flight, its first exchange done, while
\* the other caller has none
NextRequestAfterResponseWitness ==
    /\ pc[1] = "recv"
    /\ ret[1].op = "execute"
    /\ ret[1].out.kind = "ok"
    /\ pc[2] = "idle"
    /\ outstanding = 1

\* ------------------------------------------------------------------------
\* Properties of the response decoders (SpecDecode)
\* ------------------------------------------------------------------------
\* The caller's execute has ended after reading the whole response frame of
\* the scenario: its body went through the decoder of the mode
Answered ==
    /\ pc[1] = "idle"
    /\ ret[1].op = "execute"
    /\ lastRaw[1] = ResponseFrame(stream0.sent)

\* The rows of a table as the decoder gives them, every value coerced
CoercedRows(rows) ==
    [i \in 1..Len(rows) |-> [j \in 1..Len(rows[i]) |-> Coerce(rows[i][j])]]

\* TableResult(columns, rows) of spec.md, as a returned value
OkTable(cols, rows) ==
    [kind |-> "ok", msg |-> "table", val |-> [columns |-> cols, rows |-> rows]]

\* C11: decoding the encoding of a table of C columns and R rows gives a
\* table result with exactly the C column names in order and the R rows in
\* order, each of length C
TableDecodeReproduces ==
    (Answered /\ stream0 \in GridScenarios) =>
        /\ ret[1].out.kind = "ok"
        /\ ret[1].out.msg = OkTable(<<>>, <<>>).msg
        /\ ret[1].out.val = OkTable(stream0.cols, CoercedRows(stream0.rows)).val

\* What the decoder does give for such a table: the rows alone
TableDecodeGivesRows ==
    (Answered /\ stream0 \in GridScenarios) =>
        ret[1].out = OkRows(CoercedRows(stream0.rows))

\* The scenario's body is the encoding itself, nothing cut and nothing added
SentWellFormed == stream0.sent = stream0.wf

\* "Server Error: " + message
ServerErrorText(message) ==
    <<83, 101, 114, 118, 101, 114, 32, 69, 114, 114, 111, 114, 58, 32>> \o message

\* C12: a binary body of tag 0xFF makes execute raise QueryError with the
\* text "Server Error: " followed by the message of the body, and no other
\* kind of error
ErrorTagRaisesQueryError ==
    (Answered /\ stream0.form = "error" /\ SentWellFormed) =>
        /\ ret[1].out.kind = "QueryError"
        /\ ret[1].out.val = ServerErrorText(stream0.s)

ErrorTagWitness ==
    /\ Answered
    /\ stream0.form = "error"
    /\ SentWellFormed
    /\ stream0.s = <<123>> \o S_ERROR
    /\ ret[1].out.kind = "QueryError"

\* C13: a binary body shorter than its declared lengths require always
\* makes execute raise; nothing shortened is returned
ShortBodyAlwaysRaises ==
    (Answered /\ stream0 \in CutScenarios) => ret[1].out.kind # "ok"

\* C14: a binary body whose first byte is none of 0xFF, 0x01, 0x02 makes
\* execute raise; it returns no value
UnknownTagRaises ==
    (Answered /\ stream0.form = "unknown") => ret[1].out.kind # "ok"

\* The kinds a transport failure reaches the caller as: a socket error, the
\* connection closed by the server
TransportErrorKinds ==
    { ExecExcept(Raise("socket.error", "recv", <<>>)).kind, ConnectionClosedError.kind }

\* The scenario's binary body is malformed
Malformed == stream0.mode = "binary" /\ (stream0.form = "unknown" \/ ~SentWellFormed)

\* C15: the error raised for a malformed binary body is of a kind other
\* than the kinds raised for transport failures
DecodeErrorKindDistinct ==
    (Answered /\ Malformed /\ ret[1].out.kind # "ok") =>
        ret[1].out.kind \notin TransportErrorKinds

\* s without its surrounding whitespace
Stripped(s) ==
    IF \A i \in 1..Len(s) : IsSpace(s[i]) THEN <<>>
    ELSE LET a == CHOOSE i \in 1..Len(s) : ~IsSpace(s[i]) /\ \A k \in 1..(i - 1) : IsSpace(s[k])
             b == CHOOSE j \in 1..Len(s) : ~IsSpace(s[j]) /\ \A k \in (j + 1)..Len(s) : IsSpace(s[k])
         IN  SubSeq(s, a, b)

\* s contains "ERROR" and does not begin with "{"
LooksLikeError(s) ==
    /\ \E i \in 1..Len(s) : i + 4 <= Len(s) /\ SubSeq(s, i, i + 4) = <<69, 82, 82, 79, 82>>
    /\ s[1] # 123

\* C16: in text mode execute raises QueryError carrying the stripped string
\* exactly when that string contains "ERROR" and does not begin with "{";
\* otherwise it returns the stripped string
TextHeuristic ==
    (Answered /\ stream0.mode = "text") =>
        IF LooksLikeError(Stripped(stream0.s))
        THEN ret[1].out = Raise("QueryError", "", Stripped(stream0.s))
        ELSE ret[1].out = OkStr(Stripped(stream0.s))

TextHeuristicWitness ==
    /\ Answered
    /\ stream0.mode = "text"
    /\ stream0.s = <<32>> \o S_ERROR \o <<32>>
    /\ ret[1].out = Raise("QueryError", "", S_ERROR)

\* C17: in json mode execute returns the stripped string whatever it
\* holds, and raises no QueryError
JsonBodyReturned ==
    (Answered /\ stream0.mode = "json") => ret[1].out = OkStr(Stripped(stream0.s))

\* s is ASCII digits, or "-" and ASCII digits
AsciiInteger(s) ==
    LET d == IF s # <<>> /\ s[1] = 45 THEN Tail(s) ELSE s IN
    d # <<>> /\ \A i \in 1..Len(d) : d[i] \in 48..57

\* The value coercion should give for the cell string s
CoercionOf(s) ==
    IF AsciiInteger(s) THEN IntCell(IntValue(s))
    ELSE IF FloatParses(s) THEN FloatCell(s)
    ELSE TextCell(s)

\* C18: a cell becomes an Integer exactly when it is ASCII digits with an
\* optional leading "-", else a Float when it parses as one, else the Text
CoercionByAsciiDigits ==
    (Answered /\ stream0 \in CellScenarios) =>
        ret[1].out = OkRows(<< << CoercionOf(stream0.rows[1][1]) >> >>)

\* C19: a binary body of tag 0x01 makes execute return its message as it
\* is: not stripped, not coerced, not raised for holding "ERROR"
SimpleMessageAsIs ==
    (Answered /\ stream0.form = "message" /\ SentWellFormed) =>
        ret[1].out = OkStr(stream0.s)

SimpleMessageWitness ==
    /\ Answered
    /\ stream0.form = "message"
    /\ SentWellFormed
    /\ stream0.s = <<32>> \o S_ERROR \o <<32>>
    /\ ret[1].out.kind = "ok"

\* C20: a binary body that carries bytes after what its declared lengths
\* account for is not accepted
TrailingBytesRejected ==
    (Answered /\ stream0 \in ExtraScenarios) => ret[1].out.kind # "ok"

\* C28: on a well-formed table every cell string becomes an Integer, a
\* Float or the Text, and the decode does not fail for what a cell holds
CoercionTotal ==
    (Answered /\ stream0 \in CellScenarios) => ret[1].out.kind = "ok"

\* The tag that execute's request frame carries for a mode string
TagOfMode(m) ==
    IF m = "json" THEN CMD_JSON ELSE IF m = "binary" THEN CMD_BINARY ELSE CMD_TEXT

\* C29: the request carries tag 'B' exactly for mode 'binary', 'J' for
\* 'json' and 'Q' for every other mode string, and the body is decoded by
\* the binary decoder exactly when the tag written was 'B', else as text
DecodePathMatchesTag ==
    [][ /\ (pc[1] = "send" /\ pc'[1] = "recv") =>
               /\ writes'[1][1][1] = TagOfMode(req[1].mode)
               /\ writes'[1][1][1] = CMD_BINARY <=> req[1].mode = "binary"
        /\ (pc[1] = "recv" /\ phase[1] = "body" /\ Len(data[1]) >= need[1] /\ pc'[1] = "idle") =>
               ret'[1].out = IF writes[1][1][1] = CMD_BINARY
                             THEN ExecExcept(ParseBinaryBody(data[1]))
                             ELSE ExecExcept(ParseTextBody(data[1])) ]_vars

\* Mode 'xml' answered with the bytes of a binary message: the text of all
\* the bytes comes back, not the message
DecodePathMatchesTagWitness ==
    /\ Answered
    /\ stream0.mode = "xml"
    /\ stream0.sent = EncodeMessage(1, <<65>>)
    /\ ret[1].out = OkStr(<<1, 0, 0, 0, 1, 65>>)

\* ------------------------------------------------------------------------
\* Properties of execute within the Session's life (Spec)
\* ------------------------------------------------------------------------
\* C21: one execute writes its request frame at most once; a send or a
\* read that fails (socket error, timeout) ends the call with
\* OperationalError, nothing written again and nothing read again
NoAutomaticRetry ==
    [][ /\ Len(writes'[1]) <= 1
        /\ (ctx[1] = "user" /\ (RecvFail(1) \/ ExecSend(1, TRUE))) =>
               /\ pc'[1] = "idle"
               /\ ret'[1].op = "execute"
               /\ ret'[1].out.kind = "OperationalError"
               /\ unanswered' = unanswered
               /\ inbox' = inbox ]_vars

\* A read failed after the length prefix of the response had been read
NoAutomaticRetryWitness ==
    /\ pc[1] = "idle"
    /\ ret[1] = Ended("execute", Raise("OperationalError", "Network error", <<>>))
    /\ Len(lastRaw[1]) = 4
    /\ unanswered = 0

\* C23: once close() has ended on a Session no operation makes it connected
\* again, and a cursor made before the close sends nothing after it
ClosedIsTerminal ==
    [][ (pc[1] = "idle" /\ ret[1].op = "close") =>
            /\ ~IsConnected'
            /\ pc'[1] # "send" ]_vars

\* The login response has been read to its last byte and holds OK or SUCCESS
LoginAccepted ==
    /\ ctx[1] = "login"
    /\ pc[1] = "recv"
    /\ phase[1] = "body"
    /\ Len(data[1]) >= need[1]
    /\ ParseTextBody(data[1]).kind = "ok"
    /\ \/ Contains(ParseTextBody(data[1]).val, S_OK)
       \/ Contains(ParseTextBody(data[1]).val, S_SUCCESS)

\* C24: connect sends LOGIN only with a username and a password, the
\* database query only with a database, the database query only after the
\* LOGIN exchange has completed, and never after a login that failed
ConnectOrdersExchanges ==
    [][ /\ (ctx'[1] = "login" /\ pc'[1] = "send") =>
               /\ args'[1].username # <<>>
               /\ args'[1].password # <<>>
               /\ frame'[1] = RequestFrame(LoginQuery(args'[1]), "text")
        /\ (ctx'[1] = "usedb" /\ pc'[1] = "send") =>
               /\ args'[1].database # <<>>
               /\ frame'[1] = RequestFrame(UseDbQuery(args'[1]), "text")
        /\ (ctx'[1] = "usedb" /\ ctx[1] # "usedb") => pc[1] = "conn_db"
        /\ (pc'[1] = "conn_db" /\ pc[1] # "conn_db") =>
               \/ LoginAccepted
               \/ /\ pc[1] = "idle"
                  /\ args'[1].username = <<>> \/ args'[1].password = <<>>
        /\ (ctx[1] = "login" /\ ctx'[1] # "login" /\ ~LoginAccepted) =>
               /\ pc'[1] = "idle"
               /\ ret'[1].op = "connect"
               /\ ret'[1].out.kind # "ok" ]_vars

\* The database query is on the wire after a login that was accepted
ConnectOrdersExchangesWitness ==
    /\ ctx[1] = "usedb"
    /\ pc[1] = "recv"
    /\ writes[1] = << RequestFrame(UseDbQuery(args[1]), "text") >>
    /\ args[1].username # <<>>
    /\ args[1].password # <<>>

\* The step ends a caller's execute on cursor 1
ExecuteEnds ==
    /\ pc'[1] = "idle"
    /\ ret'[1].op = "execute"
    /\ \/ ctx[1] = "user"
       \/ \E fql \in Queries, m \in Modes : ExecCall(1, 1, fql, m)

\* C25 as stated: last_raw_bytes is the whole frame after a successful
\* execute, and nothing or the 4-byte prefix after a failed one
LastRawAfterExecute ==
    [][ ExecuteEnds =>
            IF ret'[1].out.kind = "ok"
            THEN WholeFrame(lastRaw'[1])
            ELSE Len(lastRaw'[1]) \in {0, 4} ]_vars

\* C25: last_raw_bytes is the whole frame of this exchange after a
\* successful execute; an execute refused by the connected check leaves it
\* as it was; after any other failure it is nothing or the 4-byte prefix
\* when the transport failed, and the whole frame when the decoder raised
LastRawByOutcome ==
    [][ ExecuteEnds =>
            IF ret'[1].out.kind = "ok"
            THEN /\ WholeFrame(lastRaw'[1])
                 /\ ret'[1].out = ParseBody(req[1].mode, Drop(lastRaw'[1], 4))
            ELSE IF ctx[1] # "user"
            THEN /\ ret'[1].out = NotConnectedError
                 /\ lastRaw'[1] = lastRaw[1]
            ELSE IF pc[1] = "recv" /\ Len(data[1]) >= need[1]
            THEN /\ WholeFrame(lastRaw'[1])
                 /\ ret'[1].out = ExecExcept(ParseBody(req[1].mode, Drop(lastRaw'[1], 4)))
            ELSE /\ Len(lastRaw'[1]) \in {0, 4}
                 /\ lastRaw'[1] = lastRaw[1] ]_vars

\* An execute answered "ERROR" ends with QueryError and the cursor holds
\* the whole frame
LastRawByOutcomeWitness ==
    /\ pc[1] = "idle"
    /\ ret[1].op = "execute"
    /\ ret[1].out.kind = "QueryError"
    /\ lastRaw[1] = ResponseFrame(B_ERROR)

\* C26: what an execute returns was decoded from the frame the server sent
\* for its own request: at the return no request of the Session is left
\* unanswered
ResponseOfOwnRequest ==
    [][ (ctx[1] = "user" /\ pc[1] = "recv" /\ pc'[1] = "idle" /\ ret'[1].out.kind = "ok") =>
            unanswered = 0 ]_vars

\* C27: no step of an execute changes the Session's sock or _connected
ExecuteKeepsSession ==
    [][ (ctx[1] = "user" \/ ctx'[1] = "user" \/ ExecuteEnds) =>
            /\ sock' = sock
            /\ sockSt' = sockSt
            /\ connected' = connected ]_vars

\* The server has closed, execute has failed on it, and is_connected() is
\* still true
ExecuteKeepsSessionWitness ==
    /\ pc[1] = "idle"
    /\ ret[1] = Ended("execute", ConnectionClosedError)
    /\ eof
    /\ IsConnected

\* ------------------------------------------------------------------------
\* Termination of the exchange (SpecExchangeFair)
\* ------------------------------------------------------------------------
\* C30: _recv_n(n) ends after at most n calls of recv that give data, and
\* _recv_n(0) gives the empty buffer with no call of recv; an execute that
\* has got to its sendall writes one frame and then returns or raises
ReadExactTerminates ==
    /\ [](pc[1] = "recv" => (deliveries[1] <= need[1] /\ Len(writes[1]) = 1))
    /\ [][ (pc[1] = "recv" /\ need[1] = 0 /\ << pc, phase, data >>' # << pc, phase, data >>) =>
               /\ pc'[1] = "idle"
               /\ ret'[1].out = ExecExcept(ParseBody(req[1].mode, <<>>))
               /\ lastRaw'[1] = lastRaw[1]
               /\ inbox' = inbox
               /\ eof' = eof ]_vars
    /\ (pc[1] = "send") ~> (pc[1] = "idle")

\* A body of two bytes has come in two calls of recv
ReadExactTerminatesWitness ==
    /\ pc[1] = "recv"
    /\ phase[1] = "body"
    /\ need[1] = 2
    /\ deliveries[1] = 2
    /\ Len(data[1]) = 2

\* ------------------------------------------------------------------------
\* Properties of close() during an execute (SpecCancel)
\* ------------------------------------------------------------------------
\* The caller's execute has a recv still to make and the Session's socket
\* has been closed, or taken away, under it
ReadAfterClose ==
    /\ pc[1] = "recv"
    /\ Len(data[1]) < need[1]
    /\ pc[2] # "idle" \/ ret[2].op = "close"

\* C22: an execute whose Session is closed by another thread while it has
\* reads to make ends with an error of the driver's own hierarchy
CloseFailsReadTyped ==
    [][ (ReadAfterClose /\ pc'[1] = "idle") => ret'[1].out.kind \in DriverErrors ]_vars

====
